---- MODULE Spec2Model ----
(***************************************************************************)
(* Model of simian/mac/common/applesus.py: Apple SUS catalog generation    *)
(* (GenerateAppleSUSCatalogs, GenerateAppleSUSCatalog), dist file parsing   *)
(* (DistFileDocument, ParseDist) and auto-promotion dates                   *)
(* (GetAutoPromoteDate, _GetNextWeekdayDate).                               *)
(*                                                                          *)
(* Five specifications share the variables:                                 *)
(*   Spec        GenerateAppleSUSCatalog runs, one datastore call per step  *)
(*   SpecFilter  the query and filter steps over bounded stores             *)
(*   SpecAll     GenerateAppleSUSCatalogs calls and the deferred task queue *)
(*   SpecDate    GetAutoPromoteDate over bounded products                   *)
(*   SpecDist    ParseDist over bounded dist documents                      *)
(***************************************************************************)
EXTENDS Integers, Sequences, FiniteSets, TLC

VARIABLES
    utcnow,             \* the UTC clock, in whole seconds
    products,           \* models.AppleSUSProduct: product_id -> tracks
    datastore,          \* models.AppleSUSCatalog: key_name -> plist xml
    runs,               \* GenerateAppleSUSCatalog invocations, in start order
    call,               \* the GenerateAppleSUSCatalogs invocation in progress
    queue,              \* deferred tasks pending: task name -> args
    tombstones,         \* names of deferred tasks already dispatched
    edits,              \* number of external changes to products/untouched
    called,             \* the callers that made their GenerateAppleSUSCatalogs call
    date_track,         \* GetAutoPromoteDate: track argument
    applesus_product,   \* GetAutoPromoteDate: applesus_product argument
    auto_promote_date,  \* GetAutoPromoteDate: outcome
    dist_str,           \* ParseDist: dist_str argument
    dist                \* ParseDist: outcome

vars == <<utcnow, products, datastore, runs, call, queue, tombstones, edits,
          called, date_track, applesus_product, auto_promote_date,
          dist_str, dist>>

catalog_vars == <<utcnow, products, datastore, runs, call, queue, tombstones,
                  edits, called>>
date_vars == <<date_track, applesus_product, auto_promote_date>>
dist_vars == <<dist_str, dist>>

(***************************************************************************)
(* Bounds                                                                  *)
(***************************************************************************)
MaxOrdinal == 14        \* mtime dates are day ordinals 1..MaxOrdinal
MaxStatements == 2      \* lines in the strings region of a dist document
MaxTick == 1            \* the clock runs from second 0 to MaxTick
MaxRuns == 2            \* GenerateAppleSUSCatalog runs per behaviour
MaxEdits == 1           \* external changes to products / untouched catalogs
MaxTaskRuns == 1        \* deferred tasks run per behaviour

(***************************************************************************)
(* simian.mac.common track names                                           *)
(***************************************************************************)
STABLE == "stable"
TESTING == "testing"
UNSTABLE == "unstable"
TRACKS == <<STABLE, TESTING, UNSTABLE>>

Range(s) == {s[i] : i \in DOMAIN s}

(***************************************************************************)
(* Auto-promotion dates.  A datetime.date is its proleptic ordinal         *)
(* (0001-01-01 is ordinal 1, a Monday); a datetime is <<ordinal, hour>>.   *)
(***************************************************************************)
MON == 0
TUE == 1
WED == 2
THU == 3
FRI == 4
SAT == 5
SUN == 6

AUTO_PROMOTE_PHASE_DAYS_MAP == [t \in {TESTING, STABLE} |->
                                   IF t = TESTING THEN 4 ELSE 7]

\* datetime.date.weekday(): Monday is 0, Sunday is 6
weekday(d) == (d + 6) % 7

\* datetime.datetime.date(): drops the time of day
DateOf(dt) == dt[1]

_GetNextWeekdayDate(wd, min_date) ==
    IF weekday(min_date) > wd
    THEN min_date + (7 - weekday(min_date) + wd)
    ELSE min_date + (wd - weekday(min_date))

\* outcome of a GetAutoPromoteDate call
ReturnDate(d) == [kind |-> "date", date |-> d]
ReturnNone == [kind |-> "None", date |-> 0]
RaiseValueError == [kind |-> "ValueError", date |-> 0]

\* the track is validated before the product is looked at
RECURSIVE GetAutoPromoteDateTrackFirst(_, _)
GetAutoPromoteDateTrackFirst(track, p) ==
    IF track \notin DOMAIN AUTO_PROMOTE_PHASE_DAYS_MAP THEN RaiseValueError
    ELSE IF p.manual_override THEN ReturnNone
    ELSE IF UNSTABLE \notin p.tracks THEN ReturnNone
    ELSE
      LET days == AUTO_PROMOTE_PHASE_DAYS_MAP[track]
          mdate == DateOf(p.mtime)
      IN  IF track = TESTING
          THEN LET d == mdate + days
               IN  ReturnDate(IF weekday(d) >= SAT
                              THEN _GetNextWeekdayDate(MON, d) ELSE d)
          ELSE LET previous_track_date ==
                     IF TESTING \notin p.tracks
                     THEN GetAutoPromoteDateTrackFirst(TESTING, p).date
                     ELSE mdate
               IN  ReturnDate(_GetNextWeekdayDate(WED,
                                  previous_track_date + days))

\* the unstable-membership test is missing
RECURSIVE GetAutoPromoteDateNoUnstableTest(_, _)
GetAutoPromoteDateNoUnstableTest(track, p) ==
    IF p.manual_override THEN ReturnNone
    ELSE IF track \notin DOMAIN AUTO_PROMOTE_PHASE_DAYS_MAP
         THEN RaiseValueError
    ELSE
      LET days == AUTO_PROMOTE_PHASE_DAYS_MAP[track]
          mdate == DateOf(p.mtime)
      IN  IF track = TESTING
          THEN LET d == mdate + days
               IN  ReturnDate(IF weekday(d) >= SAT
                              THEN _GetNextWeekdayDate(MON, d) ELSE d)
          ELSE LET previous_track_date ==
                     IF TESTING \notin p.tracks
                     THEN GetAutoPromoteDateNoUnstableTest(TESTING, p).date
                     ELSE mdate
               IN  ReturnDate(_GetNextWeekdayDate(WED,
                                  previous_track_date + days))

\* the weekend test of the testing branch is > SAT instead of >= SAT
RECURSIVE GetAutoPromoteDateSunOnly(_, _)
GetAutoPromoteDateSunOnly(track, p) ==
    IF p.manual_override THEN ReturnNone
    ELSE IF UNSTABLE \notin p.tracks THEN ReturnNone
    ELSE IF track \notin DOMAIN AUTO_PROMOTE_PHASE_DAYS_MAP
         THEN RaiseValueError
    ELSE
      LET days == AUTO_PROMOTE_PHASE_DAYS_MAP[track]
          mdate == DateOf(p.mtime)
      IN  IF track = TESTING
          THEN LET d == mdate + days
               IN  ReturnDate(IF weekday(d) > SAT
                              THEN _GetNextWeekdayDate(MON, d) ELSE d)
          ELSE LET previous_track_date ==
                     IF TESTING \notin p.tracks
                     THEN GetAutoPromoteDateSunOnly(TESTING, p).date
                     ELSE mdate
               IN  ReturnDate(_GetNextWeekdayDate(WED,
                                  previous_track_date + days))

\* the stable date is anchored on the raw mtime even when not yet in testing
GetAutoPromoteDateRawMtime(track, p) ==
    IF p.manual_override THEN ReturnNone
    ELSE IF UNSTABLE \notin p.tracks THEN ReturnNone
    ELSE IF track \notin DOMAIN AUTO_PROMOTE_PHASE_DAYS_MAP
         THEN RaiseValueError
    ELSE
      LET days == AUTO_PROMOTE_PHASE_DAYS_MAP[track]
          mdate == DateOf(p.mtime)
      IN  IF track = TESTING
          THEN LET d == mdate + days
               IN  ReturnDate(IF weekday(d) >= SAT
                              THEN _GetNextWeekdayDate(MON, d) ELSE d)
          ELSE ReturnDate(_GetNextWeekdayDate(WED, mdate + days))

RECURSIVE GetAutoPromoteDate(_, _)
GetAutoPromoteDate(track, p) ==
    IF p.manual_override THEN ReturnNone
    ELSE IF UNSTABLE \notin p.tracks THEN ReturnNone
    ELSE IF track \notin DOMAIN AUTO_PROMOTE_PHASE_DAYS_MAP
         THEN RaiseValueError
    ELSE
      LET days == AUTO_PROMOTE_PHASE_DAYS_MAP[track]
          mdate == DateOf(p.mtime)
      IN  IF track = TESTING
          THEN LET d == mdate + days
               IN  ReturnDate(IF weekday(d) >= SAT
                              THEN _GetNextWeekdayDate(MON, d) ELSE d)
          ELSE LET previous_track_date ==
                     IF TESTING \notin p.tracks
                     THEN GetAutoPromoteDate(TESTING, p).date
                     ELSE mdate
               IN  ReturnDate(_GetNextWeekdayDate(WED,
                                  previous_track_date + days))

(***************************************************************************)
(* Dist documents.  A dist_str is [xml, cdata]: xml says whether minidom   *)
(* parses it and finds the localization/strings elements, cdata is the     *)
(* text of the strings element as a sequence of lines:                     *)
(*   comment          // ...                                               *)
(*   kv               "KEY" = qVALUEq;      (q is " or ')                  *)
(*   open             "KEY" = qVALUE        (no closing quote on the line) *)
(*   bad              "KEY" = ;                                            *)
(* A parsed value is <<VALUE>>, or <<VALUE, line, ..., line>> when the     *)
(* match ran over the following lines.  None is <<>>.                      *)
(***************************************************************************)
DistKeys == {"SU_TITLE", "SU_VERS", "SU_VERSION", "SU_SERVERCOMMENT",
             "SU_DESCRIPTION"}
DistValues == {"", "1.0"}
Quotes == {"dq", "sq"}

DistLines ==
    [kind : {"kv", "open"}, key : DistKeys, quote : Quotes, value : DistValues]
    \cup {[kind |-> k, key |-> "SU_TITLE", quote |-> "dq", value |-> ""] :
            k \in {"comment", "bad"}}

SeqsUpTo(S, n) == UNION {[1..k -> S] : k \in 0..n}

DistStrs ==
    [xml : {"ok"}, cdata : SeqsUpTo(DistLines, MaxStatements)]
    \cup [xml : {"malformed", "no_strings"}, cdata : {<<>>}]

None == <<>>

DictPut(d, k, v) == [x \in DOMAIN d \cup {k} |-> IF x = k THEN v ELSE d[x]]
DictGet(d, k) == IF k \in DOMAIN d THEN d[k] ELSE None

Min(S) == CHOOSE x \in S : \A y \in S : x <= y

\* re.finditer(kv_split, istr): the scan restarts after each match; a kv line
\* matches alone; an open line matches up to the first later line that ends
\* in its quote followed by ';' and swallows the lines in between; comments
\* match without a key; anything else is skipped.
RECURSIVE FindIter(_, _, _)
FindIter(lines, i, installer_script) ==
    IF i > Len(lines) THEN installer_script
    ELSE LET l == lines[i]
             closing == {j \in (i + 1)..Len(lines) :
                           lines[j].kind = "kv" /\ lines[j].quote = l.quote}
         IN  IF l.kind = "kv"
             THEN FindIter(lines, i + 1,
                           DictPut(installer_script, l.key, <<l.value>>))
             ELSE IF l.kind = "open" /\ closing # {}
             THEN FindIter(lines, Min(closing) + 1,
                           DictPut(installer_script, l.key,
                                   <<l.value>> \o
                                   SubSeq(lines, i + 1, Min(closing))))
             ELSE FindIter(lines, i + 1, installer_script)

_ParseInstallerScriptString(istr) == FindIter(istr, 1, <<>>)

\* DistFileDocument.LoadDocument: what it raises, if anything
LoadDocumentRaises(distfile_xml) ==
    IF distfile_xml.xml = "malformed" THEN "NameError"
    ELSE IF distfile_xml.xml = "no_strings" THEN "DocumentFormatError"
    ELSE "none"

\* Python's truth value of a str or None
Truthy(v) == v # None /\ v # <<"">>
\* Python's "a or b"
Or(a, b) == IF Truthy(a) THEN a ELSE b

ParseDist(d) ==
    IF LoadDocumentRaises(d) # "none"
    THEN [raises |-> LoadDocumentRaises(d), title |-> None, version |-> None,
          servercomment |-> None, description |-> None]
    ELSE LET isd == _ParseInstallerScriptString(d.cdata)
         IN  [raises |-> "none",
              title |-> DictGet(isd, "SU_TITLE"),
              version |-> Or(DictGet(isd, "SU_VERS"),
                             DictGet(isd, "SU_VERSION")),
              servercomment |-> DictGet(isd, "SU_SERVERCOMMENT"),
              description |-> DictGet(isd, "SU_DESCRIPTION")]

(***************************************************************************)
(* Catalogs.  A str such as an os_version is a sequence of characters.  A  *)
(* plist is a dict: a function from its keys; plist["Products"] is a dict  *)
(* product_id -> product descriptor.                                       *)
(***************************************************************************)
OS_VERSIONS == << <<"1", "0", ".", "5">>, <<"1", "0", ".", "6">>,
                  <<"1", "0", ".", "7">> >>

ProductIds == {"p1", "p2", "p3"}

\* datetime.strftime('%Y-%m-%d-%H-%M-%S'): the instant at second resolution.
\* The clock of the model counts whole seconds: two reads between two ticks
\* are two instants of the same second.
strftime(now) == now

\* key names: '%s_untouched' % os_version, '%s_%s' % (os_version, track),
\* 'backup_%s_%s_%s' % (os_version, track, now_str)
KeyName(prefix, os_version, track, now_str) ==
    [prefix |-> prefix, os_version |-> os_version, track |-> track,
     now_str |-> now_str]
UntouchedKey(os_version) == KeyName("", os_version, "untouched", -1)
CurrentKey(os_version, track) == KeyName("", os_version, track, -1)
BackupKey(os_version, track, now_str) ==
    KeyName("backup", os_version, track, now_str)

\* plist.ApplePlist(xml).Parse() and ApplePlist.GetXml()
GetXml(plist) == <<"<plist>", plist>>
Parse(xml) == xml[2]

Restrict(f, S) == [x \in S |-> f[x]]

\* dict.get(key, default)
Get(d, key, default) == IF key \in DOMAIN d THEN d[key] ELSE default

\* models.AppleSUSProduct.all().filter('tracks =', track)
ApprovedProductIds(prods, track) ==
    {product_id \in DOMAIN prods : track \in prods[product_id]}

\* a filter loop with the test inverted: deletes the approved products
FilterProductsInverted(plist, approved_product_ids) ==
    IF "Products" \notin DOMAIN plist THEN plist
    ELSE [plist EXCEPT !["Products"] =
            Restrict(@, {product_id \in DOMAIN @ :
                            product_id \notin approved_product_ids})]

\* for product_id in product_ids: if not approved: del new_plist['Products'][..]
FilterProducts(plist, approved_product_ids) ==
    LET product_ids == DOMAIN Get(plist, "Products", <<>>)
        removed == {product_id \in product_ids :
                       product_id \notin approved_product_ids}
    IN  IF removed = {} THEN plist
        ELSE [plist EXCEPT !["Products"] = Restrict(@, DOMAIN @ \ removed)]

\* untouched catalogs the sync from Apple may store
Catalog(ids, index_date) ==
    [Products |-> [product_id \in ids |->
                     [ServerMetadataURL |-> product_id, PostDate |-> index_date]],
     IndexDate |-> index_date]
UntouchedCatalogs ==
    {Catalog({"p1", "p2"}, "d1"), Catalog({"p2"}, "d2"),
     [IndexDate |-> "d3"]}

\* tracks a product may be put in by the curation workflows
TrackSets == {{UNSTABLE}, {UNSTABLE, TESTING, STABLE}}
EditedProductIds == {"p1", "p2"}

InitStores ==
    /\ utcnow = 0
    /\ products = [product_id \in ProductIds |->
                      IF product_id = "p1" THEN {UNSTABLE}
                      ELSE IF product_id = "p2" THEN {UNSTABLE, TESTING}
                      ELSE {UNSTABLE, TESTING, STABLE}]
    /\ datastore = [k \in {UntouchedKey(OS_VERSIONS[i]) : i \in DOMAIN OS_VERSIONS}
                      |-> GetXml(Catalog({"p1", "p2"}, "d1"))]
    /\ edits = 0

\* the wall clock advances
Tick ==
    /\ utcnow < MaxTick
    /\ utcnow' = utcnow + 1
    /\ UNCHANGED <<products, datastore, runs, call, queue, tombstones, edits,
                   called,
                   date_vars, dist_vars>>

\* a product is approved for / removed from tracks (external curation)
SetProductTracks(product_id, tracks) ==
    /\ edits < MaxEdits
    /\ products[product_id] # tracks
    /\ products' = [products EXCEPT ![product_id] = tracks]
    /\ edits' = edits + 1
    /\ UNCHANGED <<utcnow, datastore, runs, call, queue, tombstones, called,
                   date_vars, dist_vars>>

\* the untouched catalog of an os_version is replaced (external catalog sync)
PutUntouched(os_version, plist) ==
    /\ edits < MaxEdits
    /\ datastore[UntouchedKey(os_version)] # GetXml(plist)
    /\ datastore' = DictPut(datastore, UntouchedKey(os_version), GetXml(plist))
    /\ edits' = edits + 1
    /\ UNCHANGED <<utcnow, products, runs, call, queue, tombstones, called,
                   date_vars, dist_vars>>

\* GetAutoPromoteDate and ParseDist not called
NotCalled == [kind |-> "pending", date |-> 0]

DistNotCalled == [raises |-> "pending", title |-> None, version |-> None,
                  servercomment |-> None, description |-> None]

InitDateVars ==
    /\ date_track = STABLE
    /\ applesus_product = [manual_override |-> FALSE, tracks |-> {},
                           mtime |-> <<1, 0>>]
    /\ auto_promote_date = NotCalled

InitDistVars ==
    /\ dist_str = [xml |-> "ok", cdata |-> <<>>]
    /\ dist = DistNotCalled

\* no GenerateAppleSUSCatalogs call in progress
NoCall == [pc |-> "idle", tracks |-> <<>>, delay |-> 0, ti |-> 1, oi |-> 1,
           error |-> "none", attempts |-> {}]

(***************************************************************************)
(* SpecDate: GetAutoPromoteDate applied to every bounded product           *)
(***************************************************************************)
TrackArgs == Range(TRACKS) \cup {"beta"}

AppleSUSProducts == [manual_override : BOOLEAN,
                     tracks : SUBSET Range(TRACKS),
                     mtime : (1..MaxOrdinal) \X {0, 23}]

InitDate ==
    /\ date_track \in TrackArgs
    /\ applesus_product \in AppleSUSProducts
    /\ auto_promote_date = NotCalled

InitDateSpec ==
    /\ InitDate
    /\ InitStores
    /\ runs = <<>>
    /\ call = NoCall
    /\ queue = <<>>
    /\ tombstones = <<>>
    /\ called = {}
    /\ InitDistVars

CallGetAutoPromoteDate ==
    /\ auto_promote_date = NotCalled
    /\ auto_promote_date' = GetAutoPromoteDate(date_track, applesus_product)
    /\ UNCHANGED <<date_track, applesus_product, catalog_vars, dist_vars>>

NextDate == CallGetAutoPromoteDate

SpecDate == InitDateSpec /\ [][NextDate]_vars

(***************************************************************************)
(* SpecDist: ParseDist applied to every bounded dist document             *)
(***************************************************************************)
InitDist ==
    /\ dist_str \in DistStrs
    /\ dist = DistNotCalled

InitDistSpec ==
    /\ InitDist
    /\ InitStores
    /\ runs = <<>>
    /\ call = NoCall
    /\ queue = <<>>
    /\ tombstones = <<>>
    /\ called = {}
    /\ InitDateVars

CallParseDist ==
    /\ dist = DistNotCalled
    /\ dist' = ParseDist(dist_str)
    /\ UNCHANGED <<dist_str, catalog_vars, date_vars>>

NextDist == CallParseDist

SpecDist == InitDistSpec /\ [][NextDist]_vars

(***************************************************************************)
(* Spec: GenerateAppleSUSCatalog(os_version, track), one step per          *)
(* datastore call or clock read.  runs[r].pc is the next step of run r.    *)
(***************************************************************************)
RunOsVersions == {OS_VERSIONS[1]}
RunTracks == {STABLE, TESTING}

NoPlist == <<>>

\* lines 199-203: the products query
StartRun(os_version, track) ==
    /\ Len(runs) < MaxRuns
    /\ runs' = Append(runs,
                 [os_version |-> os_version, track |-> track, pc |-> "get",
                  approved_product_ids |-> ApprovedProductIds(products, track),
                  untouched |-> NoPlist, new_plist |-> NoPlist,
                  catalog_plist_xml |-> GetXml(NoPlist), now_str |-> -1,
                  failed_at |-> "none"])
    /\ UNCHANGED <<utcnow, products, datastore, call, queue, tombstones, edits,
                   called,
                   date_vars, dist_vars>>

\* lines 205-216: get the untouched catalog, parse, filter, serialize
LoadAndFilter(r) ==
    /\ runs[r].pc = "get"
    /\ IF UntouchedKey(runs[r].os_version) \in DOMAIN datastore
       THEN LET untouched_catalog_plist ==
                    Parse(datastore[UntouchedKey(runs[r].os_version)])
                new_plist == FilterProducts(untouched_catalog_plist,
                                            runs[r].approved_product_ids)
            IN  runs' = [runs EXCEPT ![r].pc = "utcnow",
                                     ![r].untouched = untouched_catalog_plist,
                                     ![r].new_plist = new_plist,
                                     ![r].catalog_plist_xml = GetXml(new_plist)]
       ELSE runs' = [runs EXCEPT ![r].pc = "failed", ![r].failed_at = "get"]
    /\ UNCHANGED <<utcnow, products, datastore, call, queue, tombstones, edits,
                   called,
                   date_vars, dist_vars>>

\* lines 219-220: now = utcnow(); now_str = now.strftime(...)
TakeTime(r) ==
    /\ runs[r].pc = "utcnow"
    /\ runs' = [runs EXCEPT ![r].pc = "put_backup",
                            ![r].now_str = strftime(utcnow)]
    /\ UNCHANGED <<utcnow, products, datastore, call, queue, tombstones, edits,
                   called,
                   date_vars, dist_vars>>

\* lines 221-224: backup.put()
PutBackup(r) ==
    /\ runs[r].pc = "put_backup"
    /\ datastore' = DictPut(datastore,
                            BackupKey(runs[r].os_version, runs[r].track,
                                      runs[r].now_str),
                            runs[r].catalog_plist_xml)
    /\ runs' = [runs EXCEPT ![r].pc = "put_current"]
    /\ UNCHANGED <<utcnow, products, call, queue, tombstones, edits, called,
                   date_vars, dist_vars>>

\* lines 226-229: c.put(); return c, new_plist
PutCurrent(r) ==
    /\ runs[r].pc = "put_current"
    /\ datastore' = DictPut(datastore,
                            CurrentKey(runs[r].os_version, runs[r].track),
                            runs[r].catalog_plist_xml)
    /\ runs' = [runs EXCEPT ![r].pc = "done"]
    /\ UNCHANGED <<utcnow, products, call, queue, tombstones, edits, called,
                   date_vars, dist_vars>>

\* a datastore call raises (timeout, deadline) or the process dies: the run
\* ends where it is
Crash(r) ==
    /\ runs[r].pc \in {"put_backup", "put_current"}
    /\ runs' = [runs EXCEPT ![r].pc = "failed", ![r].failed_at = runs[r].pc]
    /\ UNCHANGED <<utcnow, products, datastore, call, queue, tombstones, edits,
                   called,
                   date_vars, dist_vars>>

Init ==
    /\ InitStores
    /\ runs = <<>>
    /\ call = NoCall
    /\ queue = <<>>
    /\ tombstones = <<>>
    /\ called = {}
    /\ InitDateVars
    /\ InitDistVars

Next ==
    \/ Tick
    \/ \E product_id \in EditedProductIds, tracks \in TrackSets :
          SetProductTracks(product_id, tracks)
    \/ \E os_version \in RunOsVersions, plist \in UntouchedCatalogs :
          PutUntouched(os_version, plist)
    \/ \E os_version \in RunOsVersions, track \in RunTracks :
          StartRun(os_version, track)
    \/ \E r \in DOMAIN runs : LoadAndFilter(r)
    \/ \E r \in DOMAIN runs : TakeTime(r)
    \/ \E r \in DOMAIN runs : PutBackup(r)
    \/ \E r \in DOMAIN runs : PutCurrent(r)
    \/ \E r \in DOMAIN runs : Crash(r)

Spec == Init /\ [][Next]_vars

(***************************************************************************)
(* SpecFilter: the query and the filtering step of GenerateAppleSUSCatalog *)
(* for every bounded product store and untouched catalog.                  *)
(***************************************************************************)
FilterCatalogs ==
    {Catalog(ids, "d1") : ids \in SUBSET ProductIds} \cup {[IndexDate |-> "d3"]}

InitFilter ==
    /\ utcnow = 0
    /\ products \in [ProductIds -> {{}, {UNSTABLE}, {UNSTABLE, TESTING},
                                    {UNSTABLE, TESTING, STABLE}}]
    /\ \E plist \in FilterCatalogs :
          datastore = [k \in {UntouchedKey(OS_VERSIONS[i]) :
                                 i \in DOMAIN OS_VERSIONS} |-> GetXml(plist)]
    /\ edits = 0
    /\ runs = <<>>
    /\ call = NoCall
    /\ queue = <<>>
    /\ tombstones = <<>>
    /\ called = {}
    /\ InitDateVars
    /\ InitDistVars

NextFilter ==
    \/ \E os_version \in RunOsVersions, track \in RunTracks :
          StartRun(os_version, track)
    \/ \E r \in DOMAIN runs : LoadAndFilter(r)

SpecFilter == InitFilter /\ [][NextFilter]_vars

(***************************************************************************)
(* Claims about GenerateAppleSUSCatalog                                    *)
(***************************************************************************)
ProductIdsOf(plist) == DOMAIN Get(plist, "Products", <<>>)

Filtered(r) == runs[r].pc \notin {"get", "failed"} \/
               (runs[r].pc = "failed" /\ runs[r].failed_at # "get")

\* C1: after the filtering step of a run, the new plist's product ids are
\* exactly the ids that are both in the untouched catalog it parsed and
\* approved for the track, each kept product has the descriptor it had in the
\* untouched catalog, and every other key of the catalog is unchanged.
C1_FilterIsIntersection ==
    \A r \in DOMAIN runs :
        Filtered(r) =>
            LET M == runs[r].untouched
                S == runs[r].approved_product_ids
                F == runs[r].new_plist
            IN  /\ M = Parse(datastore[UntouchedKey(runs[r].os_version)])
                /\ S = {id \in ProductIds : runs[r].track \in products[id]}
                /\ ProductIdsOf(F) = ProductIdsOf(M) \cap S
                /\ \A id \in ProductIdsOf(F) : F["Products"][id] = M["Products"][id]
                /\ DOMAIN F = DOMAIN M
                /\ \A k \in DOMAIN M \ {"Products"} : F[k] = M[k]
                /\ runs[r].catalog_plist_xml = GetXml(F)

\* a run filtered a catalog: it kept a product, removed one, and an approved
\* product was not in the catalog
C1_Witness ==
    \E r \in DOMAIN runs :
        /\ Filtered(r)
        /\ ProductIdsOf(runs[r].new_plist) # {}
        /\ ProductIdsOf(runs[r].untouched) \ runs[r].approved_product_ids # {}
        /\ runs[r].approved_product_ids \ ProductIdsOf(runs[r].untouched) # {}

Pairs == {<<OS_VERSIONS[i], TRACKS[j]>> : i \in DOMAIN OS_VERSIONS,
                                         j \in DOMAIN TRACKS}

BackupKeys(ds, pair) ==
    {k \in DOMAIN ds : k.prefix = "backup" /\ k.os_version = pair[1]
                       /\ k.track = pair[2]}

\* C2: the content of a pair's current record, once the record exists, is the
\* content of some stored backup of the pair.
C2_CurrentHasBackup ==
    \A pair \in Pairs :
        CurrentKey(pair[1], pair[2]) \in DOMAIN datastore =>
            \E k \in BackupKeys(datastore, pair) :
                datastore[k] = datastore[CurrentKey(pair[1], pair[2])]

\* C3: a backup record once written is never overwritten: a backup put adds
\* a key, and the content under an existing backup key never changes.
C3_BackupsAppendOnly ==
    [][/\ \A k \in DOMAIN datastore :
             k.prefix = "backup" =>
                 k \in DOMAIN datastore' /\ datastore'[k] = datastore[k]
       /\ \A r \in DOMAIN runs :
             (runs[r].pc = "put_backup" /\ runs'[r].pc = "put_current") =>
                 DOMAIN datastore' # DOMAIN datastore]_vars

BetweenWrites(pair) ==
    \E r \in DOMAIN runs :
        /\ runs[r].os_version = pair[1]
        /\ runs[r].track = pair[2]
        /\ \/ runs[r].pc = "put_current"
           \/ runs[r].pc = "failed" /\ runs[r].failed_at = "put_current"

LatestBackupKey(ds, pair) ==
    CHOOSE k \in BackupKeys(ds, pair) :
        \A k2 \in BackupKeys(ds, pair) : k2.now_str <= k.now_str

\* no two runs of the pair took the same now_str: no backup was overwritten
DistinctTimestamps(pair) ==
    \A r1, r2 \in DOMAIN runs :
        (/\ r1 # r2
         /\ runs[r1].os_version = pair[1] /\ runs[r2].os_version = pair[1]
         /\ runs[r1].track = pair[2] /\ runs[r2].track = pair[2]
         /\ runs[r1].now_str # -1) => runs[r1].now_str # runs[r2].now_str

\* C4: whenever no run of a pair is between its backup put and its current
\* put (nor died there), the pair's current record holds the content of the
\* pair's backup with the greatest timestamp; stated for the runs that took
\* distinct timestamps, overlapping or not.
C4_CurrentIsLatestBackup ==
    \A pair \in Pairs :
        (CurrentKey(pair[1], pair[2]) \in DOMAIN datastore
         /\ ~BetweenWrites(pair) /\ DistinctTimestamps(pair)) =>
            /\ BackupKeys(datastore, pair) # {}
            /\ datastore[CurrentKey(pair[1], pair[2])] =
                   datastore[LatestBackupKey(datastore, pair)]

(***************************************************************************)
(* SpecAll: GenerateAppleSUSCatalogs(track, tracks, delay), one step per   *)
(* (track, os_version) iteration, and the deferred tasks it enqueues.  A   *)
(* GenerateAppleSUSCatalog call made by an iteration or by a task is one   *)
(* step here.  A track of "" and tracks of <<>> stand for None.            *)
(***************************************************************************)
WordChars == {"0", "1", "2", "3", "4", "5", "6", "7", "8", "9", "_"}
IsWordOrHyphen(c) == c \in WordChars \cup {"-"}

\* re.sub(r'[^\w-]', '', 'gen-applesus-catalog-%s-%s-%s' % (os_version, track,
\* now_str)); the track names and now_str consist of word characters and '-'
DeferredName(os_version, track, now_str) ==
    [os_version |-> SelectSeq(os_version, IsWordOrHyphen), track |-> track,
     now_str |-> now_str]

\* deferred.defer(..., _name=deferred_name): the task queue rejects a name it
\* has seen
Defer(deferred_name) ==
    IF deferred_name \in DOMAIN queue \cup DOMAIN tombstones
    THEN "TaskAlreadyExistsError"
    ELSE "none"

\* an except clause that catches nothing
CaughtNothing(exc) == FALSE

\* except taskqueue.TaskAlreadyExistsError:
Caught(exc) == exc = "TaskAlreadyExistsError"

\* GenerateAppleSUSCatalog as one step: the datastore it leaves
GenerateAppleSUSCatalog(ds, os_version, track, stop_after_backup) ==
    LET approved_product_ids == ApprovedProductIds(products, track)
        new_plist == FilterProducts(Parse(ds[UntouchedKey(os_version)]),
                                    approved_product_ids)
        catalog_plist_xml == GetXml(new_plist)
        now_str == strftime(utcnow)
        with_backup == DictPut(ds, BackupKey(os_version, track, now_str),
                               catalog_plist_xml)
    IN  IF stop_after_backup THEN with_backup
        ELSE DictPut(with_backup, CurrentKey(os_version, track),
                     catalog_plist_xml)

\* the callers (the catalog sync cron and an admin action), one call each, one
\* call at a time
Callers == {"cron", "admin"}

\* the arguments the calls are made with
CallInputs ==
    {<<"", <<>>, 30>>, <<TESTING, <<>>, 30>>, <<"", <<STABLE>>, 30>>,
     <<TESTING, <<STABLE>>, 30>>, <<TESTING, <<>>, 0>>}

\* lines 162-167
CallGenerateAppleSUSCatalogs(caller, track, tracks, delay) ==
    /\ call.pc \in {"idle", "returned", "raised"}
    /\ caller \notin called
    /\ called' = called \cup {caller}
    /\ IF track # "" /\ tracks # <<>>
       THEN call' = [NoCall EXCEPT !.pc = "raised", !.error = "ValueError",
                                   !.delay = delay]
       ELSE call' = [NoCall EXCEPT
                       !.pc = "loop", !.delay = delay,
                       !.tracks = IF tracks = <<>> /\ track = "" THEN TRACKS
                                  ELSE IF track # "" THEN <<track>>
                                  ELSE tracks]
    /\ UNCHANGED <<utcnow, products, datastore, runs, queue, tombstones, edits,
                   date_vars, dist_vars>>

\* the loops of lines 169-170 move to the next (track, os_version)
NextIteration(c, attempt) ==
    LET c2 == [c EXCEPT !.attempts = @ \cup {attempt}]
    IN  IF c.oi < Len(OS_VERSIONS) THEN [c2 EXCEPT !.oi = @ + 1]
        ELSE IF c.ti < Len(c.tracks) THEN [c2 EXCEPT !.ti = @ + 1, !.oi = 1]
        ELSE [c2 EXCEPT !.pc = "returned"]

Attempt(os_version, track, outcome) ==
    [os_version |-> os_version, track |-> track, outcome |-> outcome]

\* lines 171-180: one iteration with delay
DeferStep ==
    /\ call.pc = "loop"
    /\ call.delay # 0
    /\ LET os_version == OS_VERSIONS[call.oi]
           track == call.tracks[call.ti]
           deferred_name == DeferredName(os_version, track, strftime(utcnow))
           exc == Defer(deferred_name)
       IN  IF exc = "none"
           THEN /\ queue' = DictPut(queue, deferred_name, <<os_version, track>>)
                /\ call' = NextIteration(call,
                              Attempt(os_version, track, "deferred"))
           ELSE IF Caught(exc)
           THEN /\ queue' = queue
                /\ call' = NextIteration(call,
                              Attempt(os_version, track, "skipped"))
           ELSE /\ queue' = queue
                /\ call' = [call EXCEPT !.pc = "raised", !.error = exc]
    /\ UNCHANGED <<utcnow, products, datastore, runs, tombstones, edits, called,
                   date_vars, dist_vars>>

\* lines 181-182: one iteration without delay
SyncStep ==
    /\ call.pc = "loop"
    /\ call.delay = 0
    /\ LET os_version == OS_VERSIONS[call.oi]
           track == call.tracks[call.ti]
       IN  /\ datastore' = GenerateAppleSUSCatalog(datastore, os_version, track,
                                                   FALSE)
           /\ call' = NextIteration(call,
                         Attempt(os_version, track, "ran"))
    /\ UNCHANGED <<utcnow, products, runs, queue, tombstones, edits, called,
                   date_vars, dist_vars>>

\* lines 181-182 when GenerateAppleSUSCatalog raises: the error propagates
SyncStepRaises(stop_after_backup) ==
    /\ call.pc = "loop"
    /\ call.delay = 0
    /\ datastore' = IF stop_after_backup
                    THEN GenerateAppleSUSCatalog(datastore,
                             OS_VERSIONS[call.oi], call.tracks[call.ti], TRUE)
                    ELSE datastore
    /\ call' = [call EXCEPT !.pc = "raised", !.error = "DatastoreError"]
    /\ UNCHANGED <<utcnow, products, runs, queue, tombstones, edits, called,
                   date_vars, dist_vars>>

\* the task queue runs a deferred GenerateAppleSUSCatalog
RunTask(deferred_name) ==
    /\ deferred_name \in DOMAIN queue
    /\ Cardinality(DOMAIN tombstones) < MaxTaskRuns
    /\ datastore' = GenerateAppleSUSCatalog(datastore, queue[deferred_name][1],
                                            queue[deferred_name][2], FALSE)
    /\ queue' = Restrict(queue, DOMAIN queue \ {deferred_name})
    /\ tombstones' = DictPut(tombstones, deferred_name, queue[deferred_name])
    /\ UNCHANGED <<utcnow, products, runs, call, edits, called,
                   date_vars, dist_vars>>

TaskNames ==
    {DeferredName(pair[1], pair[2], n) : pair \in Pairs, n \in 0..MaxTick}

InitAll == Init

NextAll ==
    \/ Tick
    \/ \E caller \in Callers, args \in CallInputs :
          CallGenerateAppleSUSCatalogs(caller, args[1], args[2], args[3])
    \/ DeferStep
    \/ SyncStep
    \/ \E stop_after_backup \in BOOLEAN : SyncStepRaises(stop_after_backup)
    \/ \E deferred_name \in TaskNames : RunTask(deferred_name)

SpecAll == InitAll /\ [][NextAll]_vars

(***************************************************************************)
(* Claims about GenerateAppleSUSCatalogs                                   *)
(***************************************************************************)
SelectedPairs(c) ==
    {<<OS_VERSIONS[i], c.tracks[j]>> : i \in DOMAIN OS_VERSIONS,
                                       j \in DOMAIN c.tracks}

DateCalled == auto_promote_date # NotCalled
Eligible(p) == ~p.manual_override /\ UNSTABLE \in p.tracks
FirstOnOrAfter(wd, d) == CHOOSE x \in d..(d + 6) : weekday(x) = wd
ExpectedTestingDate(p) ==
    LET candidate == DateOf(p.mtime) + 4
    IN  IF weekday(candidate) \in {SAT, SUN}
        THEN FirstOnOrAfter(MON, candidate) ELSE candidate

\* C5: the call returns None for a product with manual_override, whatever
\* the track argument, and for a product not in unstable; for any other
\* product and a track of testing or stable it returns a date.
C5_NoneOrDate ==
    DateCalled =>
        /\ applesus_product.manual_override => auto_promote_date = ReturnNone
        /\ UNSTABLE \notin applesus_product.tracks =>
              auto_promote_date = ReturnNone
        /\ (Eligible(applesus_product) /\ date_track \in {TESTING, STABLE}) =>
              auto_promote_date.kind = "date"

\* the call was made for a product not in unstable, without manual_override
C5_Witness ==
    /\ DateCalled
    /\ ~applesus_product.manual_override
    /\ applesus_product.tracks = {TESTING, STABLE}
    /\ date_track = STABLE
    /\ auto_promote_date = ReturnNone

\* C6 as claimed: for every product, a track that is not testing or stable
\* makes the call raise.
C6_InvalidTrackAlwaysRaises ==
    (DateCalled /\ date_track \notin {TESTING, STABLE}) =>
        auto_promote_date = RaiseValueError

\* C6 amended: a track that is not testing or stable makes the call raise
\* exactly when the product has no manual_override and is in unstable; for
\* the other products the call returns None.
C6_InvalidTrackRaisesIfEligible ==
    (DateCalled /\ date_track \notin {TESTING, STABLE}) =>
        IF Eligible(applesus_product)
        THEN auto_promote_date = RaiseValueError
        ELSE auto_promote_date = ReturnNone

\* the call raised for the unstable track
C6_Witness ==
    /\ DateCalled
    /\ date_track = UNSTABLE
    /\ Eligible(applesus_product)
    /\ auto_promote_date = RaiseValueError

\* C7: for testing and an eligible product the call returns mtime's date + 4
\* days when that is Monday..Friday and the first Monday after it when it is
\* Saturday or Sunday: never a weekend day, 0 to 2 days after the candidate.
C7_TestingDate ==
    (DateCalled /\ date_track = TESTING /\ Eligible(applesus_product)) =>
        LET candidate == DateOf(applesus_product.mtime) + 4
            d == auto_promote_date.date
        IN  /\ auto_promote_date.kind = "date"
            /\ weekday(candidate) \in MON..FRI => d = candidate
            /\ weekday(candidate) \in {SAT, SUN} =>
                  /\ d > candidate
                  /\ weekday(d) = MON
                  /\ \A x \in (candidate + 1)..(d - 1) : weekday(x) # MON
            /\ weekday(d) \notin {SAT, SUN}
            /\ d - candidate \in 0..2

\* the candidate of a testing call fell on a Saturday
C7_Witness ==
    /\ DateCalled
    /\ date_track = TESTING
    /\ Eligible(applesus_product)
    /\ weekday(DateOf(applesus_product.mtime) + 4) = SAT
    /\ auto_promote_date.kind = "date"

\* C8: for stable and an eligible product the call returns the earliest
\* Wednesday on or after previous_track_date + 7 days, where
\* previous_track_date is mtime's date if the product is in testing and the
\* testing auto-promote date of the product otherwise; so for a product not
\* in testing the result is at least 7 days after its testing date.
C8_StableDate ==
    (DateCalled /\ date_track = STABLE /\ Eligible(applesus_product)) =>
        LET previous_track_date ==
                IF TESTING \in applesus_product.tracks
                THEN DateOf(applesus_product.mtime)
                ELSE ExpectedTestingDate(applesus_product)
            d == auto_promote_date.date
        IN  /\ auto_promote_date.kind = "date"
            /\ d >= previous_track_date + 7
            /\ weekday(d) = WED
            /\ \A x \in (previous_track_date + 7)..(d - 1) : weekday(x) # WED
            /\ TESTING \notin applesus_product.tracks =>
                  d >= ExpectedTestingDate(applesus_product) + 7

\* a stable call for a product not in testing returned a date later than
\* the Wednesday reached from the raw mtime
C8_Witness ==
    /\ DateCalled
    /\ date_track = STABLE
    /\ Eligible(applesus_product)
    /\ TESTING \notin applesus_product.tracks
    /\ auto_promote_date.kind = "date"
    /\ auto_promote_date.date >
           FirstOnOrAfter(WED, DateOf(applesus_product.mtime) + 7)

(***************************************************************************)
(* Claims about ParseDist                                                  *)
(***************************************************************************)
\* C10: ParseDist returns the values of SU_TITLE, SU_SERVERCOMMENT and
\* SU_DESCRIPTION, and as version the value of SU_VERS whenever that key is
\* in the installer script (the empty string included), the value of
\* SU_VERSION only if SU_VERS is absent; a missing key gives None.
C10_VersionPrefersPresentKey ==
    dist.raises = "none" =>
        LET isd == _ParseInstallerScriptString(dist_str.cdata)
        IN  /\ dist.title = DictGet(isd, "SU_TITLE")
            /\ dist.servercomment = DictGet(isd, "SU_SERVERCOMMENT")
            /\ dist.description = DictGet(isd, "SU_DESCRIPTION")
            /\ dist.version = IF "SU_VERS" \in DOMAIN isd THEN isd["SU_VERS"]
                              ELSE DictGet(isd, "SU_VERSION")

====
